---- MODULE Spec2Model ----
(***************************************************************************)
(* Model of flavio/statistics/fits.py: the Fit / BayesianFit / FastFit     *)
(* hierarchy, the registries it reads and writes, and the operations       *)
(* construction, get_measurements, array_to_dict, dict_to_array,           *)
(* make_measurement and log_likelihood.                                    *)
(*                                                                         *)
(* Optional values (Python None) are sequences of length 0 or 1:           *)
(* None is <<>> and a given value v is <<v>>.                              *)
(* Python lists are sequences; Python indices are 0-based and are shifted  *)
(* by one where a sequence is indexed.                                     *)
(* Covariances are integers in units of 100000^-2, so that the value       *)
(* (r/100000)^2 of line 408 is the integer r*r; standard deviations are    *)
(* in units of 100000^-1.                                                  *)
(***************************************************************************)
EXTENDS Integers, Sequences, FiniteSets, TLC

VARIABLES
    fit,        \* the fit object the caller holds: None or <<object>>
                \* (<<first, second>> where the caller holds two)
    made,       \* how make_measurement went on that object: "never" called,
                \* "raised" or "returned" by the last call
    instances,  \* Fit.instances: name -> class of the instance registered last
    pseudo,     \* PseudoMeasurement.instances: name -> pseudo-measurement
    last        \* the last call and what it returned or raised

vars == <<fit, made, instances, pseudo, last>>

---------------------------------------------------------------------------
\* Bounds of the model.

\* the theory standard deviation of an observable that varies with the
\* nuisance parameters (one that does not has 0)
TheoryStd == 1

\* largest entry of a parameter vector x
MaxVal == 1

---------------------------------------------------------------------------
\* Generic helpers.

None == <<>>

Some(v) == <<v>>

Range(s) == {s[i] : i \in DOMAIN s}

RECURSIVE SumSeq(_)
SumSeq(s) == IF s = <<>> THEN 0 ELSE s[1] + SumSeq(Tail(s))

\* position of e in s, 0-based as list.index returns it
IndexOf(s, e) == (CHOOSE i \in DOMAIN s : s[i] = e /\ \A j \in 1..(i-1) : s[j] # e) - 1

\* all orders in which the elements of a finite set can be listed
Perms(S) == {s \in [1..Cardinality(S) -> S] : \A i, j \in DOMAIN s : i # j => s[i] # s[j]}


---------------------------------------------------------------------------
\* The registries the fit reads.

\* par_obj._parameters.keys(): the parameter names known to the constraints
ParameterNames == {"p1", "p2", "p3"}

\* par_obj.get_central_all(): the central value of every parameter
ParametersCentral == [p \in ParameterNames |-> 2]

\* the names flavio.classes.Observable.get_instance resolves
ObservableNames == {"o1", "o2", "o3", "o4"}

\* flavio.classes.Measurement.instances, in insertion order. A constraint is
\* a distribution (central value, support as <<lower bounds, upper bounds>>)
\* and the observables it constrains.
MeasurementInstances ==
    << [name |-> "B1",
        constraints |-> <<
            [parameters |-> <<"o1", "o2">>,
             central_value |-> <<5, 7>>,
             support |-> << <<4, 5>>, <<6, 9>> >>] >>],
       [name |-> "1",
        constraints |-> <<
            [parameters |-> <<"o3">>,
             central_value |-> <<3>>,
             support |-> << <<2>>, <<4>> >>],
            [parameters |-> <<"o2">>,
             central_value |-> <<7>>,
             support |-> << <<6>>, <<8>> >>] >>] >>

MeasurementNames == {MeasurementInstances[i].name : i \in DOMAIN MeasurementInstances}

\* flavio.classes.Measurement.get_instance(name)
GetMeasurement(name) ==
    MeasurementInstances[CHOOSE i \in DOMAIN MeasurementInstances :
                            MeasurementInstances[i].name = name]

\* m_obj.all_parameters: every observable some constraint of m constrains
AllParameters(m) ==
    UNION {Range(m.constraints[i].parameters) : i \in DOMAIN m.constraints}

---------------------------------------------------------------------------
\* Constructor arguments the model draws from.

FitClasses == {"BayesianFit", "FastFit"}

FitNames == {"fit", "fitB"}

FitParameterLists == {<<"p1">>, <<"p1", "p2">>, <<"px", "p2">>}

NuisanceParameterLists == {<<>>, <<"p2">>}

\* observable lists every observable of which a measurement constrains
MeasuredObservableLists == {<<"o3">>, <<"o2", "o1">>, <<"o1", "o2", "o3">>}

\* and lists with an observable no measurement constrains ("o4") or that does
\* not resolve ("ox")
ObservableLists == MeasuredObservableLists \cup {<<"o1", "o4">>, <<"ox", "o4">>}

WcNameLists == {<<>>, <<"c1">>}

\* fit_wc_function: None, or a function given by the keyword arguments it takes
WcFunctions == {None, Some({"c1"})}

ExcludeLists == {None, Some(<<"B1">>)}

IncludeLists == {None, Some(<<"B1">>)}

\* the arguments of the constructor calls of a session: one parameter
\* configuration, every name, observable list and measurement filter
SessionArgs ==
    [name : FitNames,
     fit_parameters : {<<"p1">>},
     nuisance_parameters : {<<"p2">>},
     observables : MeasuredObservableLists,
     fit_wc_names : {<<>>},
     fit_wc_function : {None},
     exclude_measurements : ExcludeLists,
     include_measurements : IncludeLists]

\* the arguments constructor calls are checked on: every combination
InitArgs ==
    [name : FitNames,
     fit_parameters : FitParameterLists,
     nuisance_parameters : NuisanceParameterLists,
     observables : ObservableLists,
     fit_wc_names : WcNameLists,
     fit_wc_function : WcFunctions,
     exclude_measurements : ExcludeLists,
     include_measurements : IncludeLists]

---------------------------------------------------------------------------
\* Fit.__init__

Ok == [exc |-> "none", msg |-> "none"]

Raise(exc, msg) == [exc |-> exc, msg |-> msg]

\* fit_wc_function(**{name: 1e-6 for name in fit_wc_names}) returns: the
\* function exists and the keywords are exactly its arguments
WcCallWorks(fn, names) == fn # None /\ fn[1] = Range(names)

\* the observables some registered measurement constrains (_obs_measured)
ObsMeasured ==
    UNION {AllParameters(MeasurementInstances[i]) : i \in DOMAIN MeasurementInstances}

\* InitChecks with the disjointness check moved before the filter check
InitChecksDisjointFirst(a) ==
    IF \E p \in Range(a.fit_parameters \o a.nuisance_parameters) : p \notin ParameterNames
        THEN Raise("AssertionError", "Parameter not found in Constraints")
    ELSE IF \E obs \in Range(a.observables) : obs \notin ObservableNames
        THEN Raise("ValueError", "Observable not found")
    ELSE IF Range(a.observables) \ (ObsMeasured \cap Range(a.observables)) # {}
        THEN Raise("AssertionError", "No measurement found for the observables")
    ELSE IF Range(a.fit_parameters) \cap Range(a.nuisance_parameters) # {}
        THEN Raise("AssertionError", "Parameters appearing as fit and nuisance")
    ELSE IF a.exclude_measurements # None /\ a.include_measurements # None
        THEN Raise("ValueError", "exclude_measurements and include_measurements")
    ELSE IF a.fit_wc_names # <<>> /\ ~WcCallWorks(a.fit_wc_function, a.fit_wc_names)
        THEN Raise("ValueError", "Error in calling the Wilson coefficient function")
    ELSE Ok

\* the checks of Fit.__init__, in the order of the code: what the first
\* failing one raises, or Ok
InitChecks(a) ==
    IF \E p \in Range(a.fit_parameters \o a.nuisance_parameters) : p \notin ParameterNames
        THEN Raise("AssertionError", "Parameter not found in Constraints")
    ELSE IF \E obs \in Range(a.observables) : obs \notin ObservableNames
        THEN Raise("ValueError", "Observable not found")
    ELSE IF Range(a.observables) \ (ObsMeasured \cap Range(a.observables)) # {}
        THEN Raise("AssertionError", "No measurement found for the observables")
    ELSE IF a.exclude_measurements # None /\ a.include_measurements # None
        THEN Raise("ValueError", "exclude_measurements and include_measurements")
    ELSE IF Range(a.fit_parameters) \cap Range(a.nuisance_parameters) # {}
        THEN Raise("AssertionError", "Parameters appearing as fit and nuisance")
    ELSE IF a.fit_wc_names # <<>> /\ ~WcCallWorks(a.fit_wc_function, a.fit_wc_names)
        THEN Raise("ValueError", "Error in calling the Wilson coefficient function")
    ELSE Ok

\* the attributes Fit.__init__ and BayesianFit.__init__ set on the new object
NewBayesianFit(cls, a) ==
    [cls |-> cls,
     name |-> a.name,
     parameters_central |-> ParametersCentral,
     fit_parameters |-> a.fit_parameters,
     nuisance_parameters |-> a.nuisance_parameters,
     exclude_measurements |-> a.exclude_measurements,
     include_measurements |-> a.include_measurements,
     fit_wc_names |-> a.fit_wc_names,
     observables |-> a.observables,
     dimension |-> Len(a.fit_parameters) + Len(a.nuisance_parameters) + Len(a.fit_wc_names)]

\* FastFit.__init__ adds measurements = None
NewFit(cls, a) ==
    IF cls = "FastFit"
    THEN [k \in DOMAIN NewBayesianFit(cls, a) \cup {"measurements"} |->
             IF k = "measurements" THEN None ELSE NewBayesianFit(cls, a)[k]]
    ELSE NewBayesianFit(cls, a)

\* NamedInstanceClass.__init__(name): the registry after the object registered
Register(reg, name, cls) == [reg EXCEPT ![name] = cls]

\* ConstructEffect with the parent's __init__ called before the checks
ConstructEffectRegistersFirst(cls, a) ==
    /\ instances' = Register(instances, a.name, cls)
    /\ IF InitChecks(a) = Ok
       THEN /\ fit' = Some(NewFit(cls, a))
            /\ made' = "never"
       ELSE UNCHANGED <<fit, made>>
    /\ UNCHANGED pseudo

\* cls(name, par_obj, ...): the checks, then the registration and the
\* attributes; nothing is registered or set when a check raises
ConstructEffect(cls, a) ==
    /\ IF InitChecks(a) = Ok
       THEN /\ instances' = Register(instances, a.name, cls)
            /\ fit' = Some(NewFit(cls, a))
            /\ made' = "never"
       ELSE UNCHANGED <<instances, fit, made>>
    /\ UNCHANGED pseudo

\* a constructor call of the session
Construct(cls, a) ==
    /\ last.op # "call"
    /\ ConstructEffect(cls, a)
    /\ last' = [op |-> "__init__", result |-> InitChecks(a)]

---------------------------------------------------------------------------
\* Fit.get_measurements

\* all_measurements: the names of the registered measurements that constrain
\* some observable of the fit, in the order of the registry
AllMeasurements(f) ==
    LET Relevant(i) ==
            ~(AllParameters(MeasurementInstances[i]) \cap Range(f.observables) = {})
        RECURSIVE Collect(_)
        Collect(i) ==
            IF i > Len(MeasurementInstances) THEN <<>>
            ELSE IF Relevant(i)
                 THEN <<MeasurementInstances[i].name>> \o Collect(i + 1)
                 ELSE Collect(i + 1)
    IN Collect(1)

\* GetMeasurements without the branch of include_measurements
GetMeasurementsIgnoringInclude(f) ==
    IF f.exclude_measurements = None
        THEN {AllMeasurements(f)}
    ELSE Perms(Range(AllMeasurements(f)) \ Range(f.exclude_measurements[1]))

\* the lists get_measurements can return: all_measurements itself without a
\* filter, and a list made of a set (in any order) with one
GetMeasurements(f) ==
    IF f.exclude_measurements = None /\ f.include_measurements = None
        THEN {AllMeasurements(f)}
    ELSE IF f.exclude_measurements # None
        THEN Perms(Range(AllMeasurements(f)) \ Range(f.exclude_measurements[1]))
    ELSE Perms(Range(AllMeasurements(f)) \cap Range(f.include_measurements[1]))

\* fit.get_measurements, read by the caller
GetMeasurementsCall ==
    /\ last.op # "call"
    /\ fit # None
    /\ \E ms \in GetMeasurements(fit[1]) :
          last' = [op |-> "get_measurements", result |-> ms]
    /\ UNCHANGED <<fit, made, instances, pseudo>>

---------------------------------------------------------------------------
\* FastFit._get_covariance_sm and FastFit.make_measurement

\* the covariance matrices np.cov can return for n observables: standard
\* deviations s and full or no correlation between each two observables
CovarianceMatrices(n) ==
    LET Pairs == {pr \in SUBSET (1..n) : Cardinality(pr) = 2}
        Corr == {c \in [Pairs -> {0, 1}] :
                    \A i, j, k \in 1..n :
                        (i # j /\ j # k /\ i # k /\ c[{i, j}] = 1 /\ c[{j, k}] = 1)
                            => c[{i, k}] = 1}
    IN {[i \in 1..n |-> [j \in 1..n |->
            IF i = j THEN s[i] * s[i] ELSE c[{i, j}] * s[i] * s[j]]] :
        s \in [1..n -> {0, TheoryStd}], c \in Corr}

\* the same, tabulated for the lengths of the observable lists of the model
CovarianceMatricesOf ==
    [n \in {Len(obs) : obs \in ObservableLists} |-> CovarianceMatrices(n)]

\* what _get_covariance_sm can return: np.cov squeezes its result, so one
\* observable gives a 0-dimensional array and several a matrix
GetCovarianceSm(f) ==
    {[ndim |-> IF Len(f.observables) = 1 THEN 0 ELSE 2, m |-> m] :
        m \in CovarianceMatricesOf[Len(f.observables)]}

\* np.sqrt on the squares the model's variances are
Sqrt(v) == CHOOSE s \in 0..v : s * s = v

\* cov_sm[ppos][:,ppos]: a new matrix (fancy indexing copies)
SubMatrix(m, ppos) ==
    [i \in 1..Len(ppos) |-> [j \in 1..Len(ppos) |-> m[ppos[i] + 1][ppos[j] + 1]]]

\* np.diff(constraint.support.T[1])[0]: the extent of the support along the
\* axis with index 1
SupportExtent(constraint) == constraint.support[2][1 + 1] - constraint.support[1][1 + 1]

\* cov_sm_p_fixed: each zero diagonal entry replaced by (r/100000)^2
FixedCovariance(constraint, cov_sm_p) ==
    LET index_zero == {i \in DOMAIN cov_sm_p : cov_sm_p[i][i] = 0}
        r == SupportExtent(constraint)
    IN [i \in DOMAIN cov_sm_p |-> [j \in DOMAIN cov_sm_p |->
            IF i = j /\ i \in index_zero THEN r * r ELSE cov_sm_p[i][j]]]

\* the theory distribution of one constraint, or what building it raises
TheoryConstraint(f, cov_sm, constraint) ==
    IF \E p \in Range(constraint.parameters) : p \notin Range(f.observables)
        THEN [exc |-> "ValueError"]      \* self.observables.index(p)
    ELSE IF cov_sm.ndim = 0
        THEN [exc |-> "IndexError"]      \* cov_sm[ppos] on a 0-dimensional array
    ELSE LET ppos == [i \in DOMAIN constraint.parameters |->
                         IndexOf(f.observables, constraint.parameters[i])]
             cov_sm_p == SubMatrix(cov_sm.m, ppos)
         IN IF Len(ppos) = 1
            THEN IF Sqrt(cov_sm_p[1][1]) = 0
                 THEN [exc |-> "NameError"]   \* DeltaDistribution is not imported
                 ELSE [exc |-> "none",
                       dist |-> [kind |-> "NormalDistribution",
                                 central_value |-> constraint.central_value,
                                 standard_deviation |-> Sqrt(cov_sm_p[1][1])]]
            ELSE [exc |-> "none",
                  dist |-> [kind |-> "MultivariateNormalDistribution",
                            central_value |-> constraint.central_value,
                            covariance |-> FixedCovariance(constraint, cov_sm_p)]]

\* convolve_distributions([constraint, constraint_th])
ConvolveDistributions(constraint, constraint_th) ==
    [experiment |-> [central_value |-> constraint.central_value,
                     support |-> constraint.support],
     theory |-> constraint_th]

\* pm.add_constraint(parameters, constraint_comb)
AddConstraint(pm, parameters, constraint_comb) ==
    Append(pm, [parameters |-> parameters, constraint |-> constraint_comb])

\* PseudoMeasurement(name): a new, empty pseudo-measurement takes the place
\* of whatever the registry held under the name
NewPseudoMeasurement(reg, name) ==
    [k \in DOMAIN reg \cup {name} |-> IF k = name THEN <<>> ELSE reg[k]]

\* the inner loop over m_obj._constraints from the i-th constraint on: the
\* registry and the exception that ended the loop, if one did
RECURSIVE AddConstraints(_, _, _, _, _)
AddConstraints(f, cov_sm, reg, measurement, i) ==
    LET m_obj == GetMeasurement(measurement)
        name == f.name \o measurement
    IN IF i > Len(m_obj.constraints) THEN [reg |-> reg, exc |-> "none"]
       ELSE LET constraint == m_obj.constraints[i]
                th == TheoryConstraint(f, cov_sm, constraint)
            IN IF th.exc # "none" THEN [reg |-> reg, exc |-> th.exc]
               ELSE AddConstraints(f, cov_sm,
                       [reg EXCEPT ![name] =
                           AddConstraint(reg[name], constraint.parameters,
                               ConvolveDistributions(constraint, th.dist))],
                       measurement, i + 1)

\* AddPseudoMeasurements adding to the pseudo-measurement the registry holds
\* under the name, where it holds one, instead of making a new one
RECURSIVE AddPseudoMeasurementsReusing(_, _, _, _)
AddPseudoMeasurementsReusing(f, cov_sm, reg, ms) ==
    IF ms = <<>> THEN [reg |-> reg, exc |-> "none"]
    ELSE LET r == AddConstraints(f, cov_sm,
                      IF f.name \o ms[1] \in DOMAIN reg THEN reg
                      ELSE NewPseudoMeasurement(reg, f.name \o ms[1]), ms[1], 1)
         IN IF r.exc # "none" THEN r
            ELSE AddPseudoMeasurementsReusing(f, cov_sm, r.reg, Tail(ms))

\* the outer loop over self.get_measurements
RECURSIVE AddPseudoMeasurements(_, _, _, _)
AddPseudoMeasurements(f, cov_sm, reg, ms) ==
    IF ms = <<>> THEN [reg |-> reg, exc |-> "none"]
    ELSE LET r == AddConstraints(f, cov_sm,
                      NewPseudoMeasurement(reg, f.name \o ms[1]), ms[1], 1)
         IN IF r.exc # "none" THEN r
            ELSE AddPseudoMeasurements(f, cov_sm, r.reg, Tail(ms))

\* fit.make_measurement(): the registry as the call leaves it, also when it
\* raises half way
MakeMeasurement ==
    /\ last.op # "call"
    /\ fit # None
    /\ fit[1].cls = "FastFit"
    /\ \E cov_sm \in GetCovarianceSm(fit[1]), ms \in GetMeasurements(fit[1]) :
          LET r == AddPseudoMeasurements(fit[1], cov_sm, pseudo, ms) IN
          /\ pseudo' = r.reg
          /\ made' = IF r.exc = "none" THEN "returned" ELSE "raised"
          /\ last' = [op |-> "make_measurement", exc |-> r.exc, cov_sm |-> cov_sm,
                      replaced |-> {fit[1].name \o ms[i] : i \in DOMAIN ms}
                                       \cap DOMAIN pseudo]
    /\ UNCHANGED <<fit, instances>>

---------------------------------------------------------------------------
\* array_to_dict, dict_to_array, get_par_dict

\* the vectors of length n the model passes
Vectors(n) == [1..n -> 0..MaxVal]

Returned(v) == [exc |-> "none", value |-> v]

Raised(exc) == [exc |-> exc]

\* { p: x[i + offset] for i, p in enumerate(names) }: a later entry of a
\* repeated name overwrites an earlier one
DictOf(names, x, offset) ==
    [p \in Range(names) |->
        x[(CHOOSE i \in DOMAIN names :
              names[i] = p /\ \A j \in DOMAIN names : names[j] = p => j <= i) + offset]]

\* BayesianFit.array_to_dict(x)
BayesianArrayToDict(f, x) ==
    LET n_fit_p == Len(f.fit_parameters)
        n_nui_p == Len(f.nuisance_parameters)
        n_wc == Len(f.fit_wc_names)
    IN IF Len(x) < n_fit_p + n_nui_p + n_wc THEN Raised("IndexError")
       ELSE Returned(
            [fit_parameters |-> DictOf(f.fit_parameters, x, 0),
             nuisance_parameters |-> DictOf(f.nuisance_parameters, x, n_fit_p),
             fit_wc |-> DictOf(f.fit_wc_names, x, n_fit_p + n_nui_p)])

\* FastFit.array_to_dict(x)
FastArrayToDict(f, x) ==
    LET n_fit_p == Len(f.fit_parameters)
        n_wc == Len(f.fit_wc_names)
    IN IF Len(x) < n_fit_p + n_wc THEN Raised("IndexError")
       ELSE Returned(
            [fit_parameters |-> DictOf(f.fit_parameters, x, 0),
             fit_wc |-> DictOf(f.fit_wc_names, x, n_fit_p)])

\* fit.array_to_dict(x), by the class of the fit
ArrayToDict(f, x) ==
    IF f.cls = "FastFit" THEN FastArrayToDict(f, x) ELSE BayesianArrayToDict(f, x)

\* [d[key][p] for p in names]
ListOf(d, key, names) == [i \in DOMAIN names |-> d[key][names[i]]]

\* whether d[key][p] exists for every p of names
HasKeys(d, key, names) ==
    key \in DOMAIN d /\ Range(names) \subseteq DOMAIN d[key]

\* BayesianFit.dict_to_array(d)
BayesianDictToArray(f, d) ==
    IF /\ HasKeys(d, "fit_parameters", f.fit_parameters)
       /\ HasKeys(d, "nuisance_parameters", f.nuisance_parameters)
       /\ HasKeys(d, "fit_wc", f.fit_wc_names)
    THEN Returned(ListOf(d, "fit_parameters", f.fit_parameters)
                  \o ListOf(d, "nuisance_parameters", f.nuisance_parameters)
                  \o ListOf(d, "fit_wc", f.fit_wc_names))
    ELSE Raised("KeyError")

\* FastFit.dict_to_array(d): line 429 reads n_nui_p, a name the method never
\* binds
FastDictToArray(f, d) == Raised("NameError")

\* fit.dict_to_array(d), by the class of the fit
DictToArray(f, d) ==
    IF f.cls = "FastFit" THEN FastDictToArray(f, d) ELSE BayesianDictToArray(f, d)

---------------------------------------------------------------------------
\* FastFit.log_likelihood

\* d.update(e) on a copy of d: the entries of e, and those of d under the
\* other keys
Update(d, e) ==
    [k \in DOMAIN d \cup DOMAIN e |-> IF k \in DOMAIN e THEN e[k] ELSE d[k]]

\* BayesianFit.get_par_dict(x), where array_to_dict(x) returns: a copy of
\* the central values, updated with the fit parameters and then with the
\* nuisance parameters of x
BayesianGetParDict(f, x) ==
    LET d == BayesianArrayToDict(f, x).value
    IN Update(Update(f.parameters_central, d.fit_parameters), d.nuisance_parameters)

\* FastFit.get_par_dict(x), where array_to_dict(x) returns: a copy of the
\* central values, updated with the fit parameters of x
FastGetParDict(f, x) ==
    LET d == FastArrayToDict(f, x).value
    IN Update(f.parameters_central, d.fit_parameters)

\* GetParDict with the update made on self.parameters_central itself, not
\* on a copy of it
GetParDictUpdatingCentral(f, x) ==
    LET d == ArrayToDict(f, x)
        par_dict == IF f.cls = "FastFit" THEN FastGetParDict(f, x)
                    ELSE BayesianGetParDict(f, x)
    IN IF d.exc # "none"
       THEN [result |-> d, parameters_central |-> f.parameters_central]
       ELSE [result |-> Returned(par_dict), parameters_central |-> par_dict]

\* fit.get_par_dict(x), by the class of the fit: what the call returns or
\* raises, and self.parameters_central after it
GetParDict(f, x) ==
    LET d == ArrayToDict(f, x)
        par_dict == IF f.cls = "FastFit" THEN FastGetParDict(f, x)
                    ELSE BayesianGetParDict(f, x)
    IN IF d.exc # "none"
       THEN [result |-> d, parameters_central |-> f.parameters_central]
       ELSE [result |-> Returned(par_dict), parameters_central |-> f.parameters_central]

\* Observable.prediction_par(par_dict, wc_obj): an opaque real function of
\* the parameters; here the sum of the parameter values
PredictionPar(obs, par_dict) ==
    LET RECURSIVE Total(_)
        Total(P) == IF P = {} THEN 0
                    ELSE LET p == CHOOSE q \in P : TRUE
                         IN par_dict[p] + Total(P \ {p})
    IN Total(DOMAIN par_dict)

\* the log-density of one combined constraint at the predictions: an opaque
\* real function; here minus the distance of the predictions from the
\* central values
LogPdf(c, predictions) ==
    LET d(i) == predictions[c.parameters[i]] - c.constraint.experiment.central_value[i]
    IN 0 - SumSeq([i \in DOMAIN c.parameters |-> IF d(i) < 0 THEN 0 - d(i) ELSE d(i)])

\* sum(m_obj.get_logprobability_all(predictions, exclude_parameters).values()):
\* the constraints on an excluded observable are left out
SumLogProbability(pm, predictions, exclude) ==
    SumSeq([i \in DOMAIN pm |->
        IF Range(pm[i].parameters) \cap exclude # {} THEN 0
        ELSE LogPdf(pm[i], predictions)])

\* PseudoMeasurement.get_instance(name)
PseudoGetInstance(reg, name) ==
    IF name \in DOMAIN reg THEN Returned(reg[name]) ELSE Raised("KeyError")

\* FastFit.get_predictions(x): the prediction of every observable of the fit
GetPredictions(f, x) ==
    [obs \in Range(f.observables) |-> PredictionPar(obs, FastGetParDict(f, x))]

\* set(m_obs) - set(self.observables)
ExcludeObservables(f, m_obj) ==
    UNION {Range(m_obj[i].parameters) : i \in DOMAIN m_obj} \ Range(f.observables)

\* SumPseudoMeasurements with ll = ... in the place of ll += ...
RECURSIVE SumPseudoMeasurementsAssigning(_, _, _, _, _, _)
SumPseudoMeasurementsAssigning(f, reg, predictions, ms, lookups, ll) ==
    IF ms = <<>> THEN [exc |-> "none", lookups |-> lookups, value |-> ll]
    ELSE LET m_obj == PseudoGetInstance(reg, f.name \o ms[1])
         IN IF m_obj.exc # "none"
            THEN [exc |-> m_obj.exc, lookups |-> Append(lookups, f.name \o ms[1])]
            ELSE SumPseudoMeasurementsAssigning(f, reg, predictions, Tail(ms),
                    Append(lookups, f.name \o ms[1]),
                    SumLogProbability(m_obj.value, predictions,
                                      ExcludeObservables(f, m_obj.value)))

\* the loop of log_likelihood over the measurements ms: the names looked up,
\* and the sum, or the KeyError of a name the registry does not hold
RECURSIVE SumPseudoMeasurements(_, _, _, _, _, _)
SumPseudoMeasurements(f, reg, predictions, ms, lookups, ll) ==
    IF ms = <<>> THEN [exc |-> "none", lookups |-> lookups, value |-> ll]
    ELSE LET m_obj == PseudoGetInstance(reg, f.name \o ms[1])
         IN IF m_obj.exc # "none"
            THEN [exc |-> m_obj.exc, lookups |-> Append(lookups, f.name \o ms[1])]
            ELSE SumPseudoMeasurements(f, reg, predictions, Tail(ms),
                    Append(lookups, f.name \o ms[1]),
                    ll + SumLogProbability(m_obj.value, predictions,
                                           ExcludeObservables(f, m_obj.value)))

\* fit.log_likelihood(x)
LogLikelihood ==
    /\ last.op # "call"
    /\ fit # None
    /\ fit[1].cls = "FastFit"
    /\ \E x \in Vectors(Len(fit[1].fit_parameters) + Len(fit[1].fit_wc_names)),
          ms \in GetMeasurements(fit[1]) :
          last' = [op |-> "log_likelihood", x |-> x,
                   result |-> SumPseudoMeasurements(fit[1], pseudo,
                                  GetPredictions(fit[1], x), ms, <<>>, 0)]
    /\ UNCHANGED <<fit, made, instances, pseudo>>

---------------------------------------------------------------------------
\* The session of a caller: fits are constructed, their measurements read,
\* pseudo-measurements made and the likelihood evaluated, in any order.

Init ==
    /\ fit = None
    /\ made = "never"
    /\ instances = [n \in FitNames |-> "none"]
    /\ pseudo = [k \in {} |-> None]
    /\ last = [op |-> "none"]

Next ==
    \/ \E a \in SessionArgs : Construct("FastFit", a)
    \/ GetMeasurementsCall
    \/ MakeMeasurement
    \/ LogLikelihood

Spec == Init /\ [][Next]_vars

---------------------------------------------------------------------------
\* The constructor on its own: a call with any arguments of InitArgs, on any
\* registry of fits, is pending in the initial state and made by the one step.

InitCall ==
    /\ fit = None
    /\ made = "never"
    /\ instances \in [FitNames -> {"none", "FastFit"}]
    /\ pseudo = [k \in {} |-> None]
    /\ \E cls \in FitClasses, a \in InitArgs :
          last = [op |-> "call", cls |-> cls, args |-> a]

ConstructCall ==
    /\ last.op = "call"
    /\ ConstructEffect(last.cls, last.args)
    /\ last' = [op |-> "__init__", cls |-> last.cls, args |-> last.args,
                result |-> InitChecks(last.args), before |-> instances]

NextCall == ConstructCall

SpecInit == InitCall /\ [][NextCall]_vars

---------------------------------------------------------------------------
\* The conversions on their own: the initial state holds a constructed fit of
\* either class with any parameter configuration that passes the checks; a
\* step converts a vector or a dictionary, converts one and converts the
\* result back, or asks for the parameter dictionary of a vector.

ConvArgs ==
    {a \in InitArgs :
        /\ a.name = "fit"
        /\ a.observables = <<"o1", "o2", "o3">>
        /\ a.exclude_measurements = None
        /\ a.include_measurements = None
        /\ InitChecks(a) = Ok}

\* the vectors passed to fit f: of every length up to f.dimension
VectorsFor(f) == UNION {Vectors(n) : n \in 0..f.dimension}

\* the dictionaries passed to fit f: the sub-dictionaries of its class, each
\* with a value for every name of its list
DictsFor(f) ==
    IF f.cls = "FastFit"
    THEN [fit_parameters : [Range(f.fit_parameters) -> 0..MaxVal],
          fit_wc : [Range(f.fit_wc_names) -> 0..MaxVal]]
    ELSE [fit_parameters : [Range(f.fit_parameters) -> 0..MaxVal],
          nuisance_parameters : [Range(f.nuisance_parameters) -> 0..MaxVal],
          fit_wc : [Range(f.fit_wc_names) -> 0..MaxVal]]

InitConv ==
    /\ \E cls \in FitClasses, a \in ConvArgs :
          /\ fit = Some(NewFit(cls, a))
          /\ instances = Register([n \in FitNames |-> "none"], a.name, cls)
    /\ made = "never"
    /\ pseudo = [k \in {} |-> None]
    /\ last = [op |-> "none"]

\* fit.array_to_dict(x)
ArrayToDictCall ==
    /\ \E x \in VectorsFor(fit[1]) :
          last' = [op |-> "array_to_dict", x |-> x, result |-> ArrayToDict(fit[1], x)]
    /\ UNCHANGED <<fit, made, instances, pseudo>>

\* fit.dict_to_array(fit.array_to_dict(x))
ArrayRoundTrip ==
    /\ \E x \in VectorsFor(fit[1]) :
          LET d == ArrayToDict(fit[1], x) IN
          last' = [op |-> "dict_to_array(array_to_dict(x))", x |-> x,
                   result |-> IF d.exc # "none" THEN d ELSE DictToArray(fit[1], d.value)]
    /\ UNCHANGED <<fit, made, instances, pseudo>>

\* fit.array_to_dict(fit.dict_to_array(d))
DictRoundTrip ==
    /\ \E d \in DictsFor(fit[1]) :
          LET x == DictToArray(fit[1], d) IN
          last' = [op |-> "array_to_dict(dict_to_array(d))", d |-> d,
                   result |-> IF x.exc # "none" THEN x ELSE ArrayToDict(fit[1], x.value)]
    /\ UNCHANGED <<fit, made, instances, pseudo>>

\* fit.get_par_dict(x)
GetParDictCall ==
    /\ \E x \in VectorsFor(fit[1]) :
          LET r == GetParDict(fit[1], x) IN
          /\ fit' = Some([fit[1] EXCEPT !.parameters_central = r.parameters_central])
          /\ last' = [op |-> "get_par_dict", x |-> x, result |-> r.result,
                      before |-> fit[1]]
    /\ UNCHANGED <<made, instances, pseudo>>

NextConv ==
    \/ ArrayToDictCall
    \/ ArrayRoundTrip
    \/ DictRoundTrip
    \/ GetParDictCall

SpecConv == InitConv /\ [][NextConv]_vars

---------------------------------------------------------------------------
\* Two FastFits of different names side by side: the caller holds both,
\* fit = <<first, second>>, made[i] tells how make_measurement went on the
\* i-th, and a step calls make_measurement or log_likelihood on either. Both
\* share the one registry of pseudo-measurements.

\* the constructor arguments of a fit of the given name that pass the checks
PairArgs(name) == {a \in SessionArgs : a.name = name /\ InitChecks(a) = Ok}

InitPair ==
    /\ \E a \in PairArgs("fit"), b \in PairArgs("fitB") :
          fit = <<NewFit("FastFit", a), NewFit("FastFit", b)>>
    /\ instances = Register(Register([n \in FitNames |-> "none"], "fit", "FastFit"),
                            "fitB", "FastFit")
    /\ made = [i \in 1..2 |-> "never"]
    /\ pseudo = [k \in {} |-> None]
    /\ last = [op |-> "none"]

\* fit[i].make_measurement(); written are the names under which the call
\* constructed a pseudo-measurement
MakeMeasurementOf(i) ==
    /\ \E cov_sm \in GetCovarianceSm(fit[i]), ms \in GetMeasurements(fit[i]) :
          LET r == AddPseudoMeasurements(fit[i], cov_sm, pseudo, ms)
              alone == AddPseudoMeasurements(fit[i], cov_sm, [k \in {} |-> None], ms)
          IN /\ pseudo' = r.reg
             /\ made' = [made EXCEPT ![i] = IF r.exc = "none" THEN "returned" ELSE "raised"]
             /\ last' = [op |-> "make_measurement", of |-> i, exc |-> r.exc,
                         written |-> DOMAIN alone.reg]
    /\ UNCHANGED <<fit, instances>>

\* fit[i].log_likelihood(x)
LogLikelihoodOf(i) ==
    /\ \E x \in Vectors(Len(fit[i].fit_parameters) + Len(fit[i].fit_wc_names)),
          ms \in GetMeasurements(fit[i]) :
          last' = [op |-> "log_likelihood", of |-> i, ms |-> ms,
                   result |-> SumPseudoMeasurements(fit[i], pseudo,
                                  GetPredictions(fit[i], x), ms, <<>>, 0)]
    /\ UNCHANGED <<fit, made, instances, pseudo>>

NextPair ==
    \/ \E i \in 1..2 : MakeMeasurementOf(i)
    \/ \E i \in 1..2 : LogLikelihoodOf(i)

SpecPair == InitPair /\ [][NextPair]_vars

---------------------------------------------------------------------------
\* What the claims speak of, stated from the specification.

\* the measurements relevant to fit f: those that constrain an observable of
\* f, without the excluded ones or within the included ones
RelevantMeasurements(f) ==
    LET touching == {m \in MeasurementNames :
                        \E o \in Range(f.observables) : o \in AllParameters(GetMeasurement(m))}
    IN IF f.exclude_measurements # None
           THEN {m \in touching : m \notin Range(f.exclude_measurements[1])}
       ELSE IF f.include_measurements # None
           THEN {m \in touching : m \in Range(f.include_measurements[1])}
       ELSE touching

\* the registry name of the pseudo-measurement of measurement m of fit f
PseudoName(f, m) == f.name \o m

\* the observable groups of the constraints of a (pseudo-)measurement
Groups(constraints) == [i \in DOMAIN constraints |-> constraints[i].parameters]

\* the number of entries of the parameter vector of fit f
VectorLength(f) ==
    IF f.cls = "FastFit" THEN Len(f.fit_parameters) + Len(f.fit_wc_names)
    ELSE Len(f.fit_parameters) + Len(f.nuisance_parameters) + Len(f.fit_wc_names)

\* the sum of the values of a function of finite domain
RECURSIVE SumOver(_)
SumOver(g) ==
    IF DOMAIN g = {} THEN 0
    ELSE LET e == CHOOSE k \in DOMAIN g : TRUE
         IN g[e] + SumOver([k \in DOMAIN g \ {e} |-> g[k]])

---------------------------------------------------------------------------
\* C1

\* C1: for every fit of either class and every valid vector x,
\* dict_to_array(array_to_dict(x)) returns x, and for every valid dictionary
\* d, array_to_dict(dict_to_array(d)) returns d; neither raises.
C1_RoundTrip ==
    /\ (last.op = "dict_to_array(array_to_dict(x))" /\ Len(last.x) = VectorLength(fit[1]))
          => last.result = Returned(last.x)
    /\ last.op = "array_to_dict(dict_to_array(d))"
          => last.result = Returned(last.d)

---------------------------------------------------------------------------
\* C2

ListedTwice(a) ==
    \E i \in DOMAIN a.fit_parameters, j \in DOMAIN a.nuisance_parameters :
        a.fit_parameters[i] = a.nuisance_parameters[j]

BothFilters(a) == Len(a.exclude_measurements) = 1 /\ Len(a.include_measurements) = 1

Unconstrained(a) ==
    \E i \in DOMAIN a.observables :
        \A m \in MeasurementNames : a.observables[i] \notin AllParameters(GetMeasurement(m))

\* C2: a constructor call fails when a parameter is listed as fit and as
\* nuisance parameter, when both measurement filters are given, or when an
\* observable is constrained by no measurement; and after a failed call the
\* registry of fits is what it was before the call and no object exists.
C2_FailedConstruction ==
    last.op = "__init__" =>
        /\ (ListedTwice(last.args) \/ BothFilters(last.args) \/ Unconstrained(last.args))
              => last.result # Ok
        /\ last.result # Ok => (instances = last.before /\ fit = None)

\* a call that fails for a parameter listed twice alone, under a name the
\* registry did not hold
C2_Witness ==
    /\ last.op = "__init__"
    /\ ListedTwice(last.args)
    /\ ~BothFilters(last.args) /\ ~Unconstrained(last.args)
    /\ last.result = Raise("AssertionError", "Parameters appearing as fit and nuisance")
    /\ last.before[last.args.name] = "none"
    /\ instances = last.before

---------------------------------------------------------------------------
\* C3

\* C3: the dimension of a fit is the number of entries of x that its
\* array_to_dict reads (it raises on every shorter vector and on no other),
\* which is |fit_parameters| + |nuisance_parameters| + |fit_wc_names| for a
\* BayesianFit and |fit_parameters| + |fit_wc_names| for a FastFit.
C3_Dimension ==
    last.op = "array_to_dict" =>
        /\ fit[1].dimension = VectorLength(fit[1])
        /\ last.result.exc = "IndexError" <=> Len(last.x) < fit[1].dimension

---------------------------------------------------------------------------
\* C4

\* C4: make_measurement completes, also on a fit with a relevant measurement
\* that constrains observables outside the fit's observables, and then the
\* registry holds, for every relevant measurement, an entry named fit.name
\* followed by the measurement name with one constraint per constraint of the
\* measurement, over the same observables. (Calls ended by the NameError of
\* C8 or by the IndexError of a fit of one observable are left aside.)
C4_PseudoMeasurementPerMeasurement ==
    (last.op = "make_measurement" /\ last.exc \notin {"NameError", "IndexError"}) =>
        /\ last.exc = "none"
        /\ \A m \in RelevantMeasurements(fit[1]) :
              /\ PseudoName(fit[1], m) \in DOMAIN pseudo
              /\ Groups(pseudo[PseudoName(fit[1], m)]) = Groups(GetMeasurement(m).constraints)

---------------------------------------------------------------------------
\* C5

\* log_likelihood after a make_measurement that returned: one lookup per
\* relevant measurement, and the sum of the log-probabilities returned
SumsRelevantPseudoMeasurements ==
    LET f == fit[1]
        names == {PseudoName(f, m) : m \in RelevantMeasurements(f)}
        LogProbability(name) ==
            SumLogProbability(pseudo[name], GetPredictions(f, last.x),
                              ExcludeObservables(f, pseudo[name]))
    IN /\ last.result.exc = "none"
       /\ Len(last.result.lookups) = Cardinality(names)
       /\ Range(last.result.lookups) = names
       /\ last.result.value = SumOver([name \in names |-> LogProbability(name)])

\* C5 as amended: log_likelihood raises a lookup error if the registry holds
\* no pseudo-measurement under fit.name + measurement for some relevant
\* measurement, returns 0 without a lookup if the fit has no relevant
\* measurement, and after make_measurement returned on the fit it looks up
\* one pseudo-measurement per relevant measurement and returns the sum of
\* their log-probabilities.
C5_LookupErrorOrSum ==
    last.op = "log_likelihood" =>
        LET f == fit[1]
            names == {PseudoName(f, m) : m \in RelevantMeasurements(f)}
        IN /\ names \ DOMAIN pseudo # {} => last.result.exc = "KeyError"
           /\ names = {} => last.result = [exc |-> "none", lookups |-> <<>>, value |-> 0]
           /\ made = "returned" => SumsRelevantPseudoMeasurements

\* C5 as claimed: log_likelihood raises a lookup error if make_measurement
\* was never called on the fit before it, and after make_measurement returned
\* it looks up one pseudo-measurement per relevant measurement and returns
\* the sum of their log-probabilities.
C5_Original ==
    last.op = "log_likelihood" =>
        /\ made = "never" => last.result.exc = "KeyError"
        /\ made = "returned" => SumsRelevantPseudoMeasurements

\* a likelihood summed over two pseudo-measurements after make_measurement
C5_Witness ==
    /\ last.op = "log_likelihood"
    /\ made = "returned"
    /\ last.result.exc = "none"
    /\ Len(last.result.lookups) = 2
    /\ last.result.value # 0

---------------------------------------------------------------------------
\* C6

\* C6: after every make_measurement call that returns, also a repeated one
\* and one on another fit of the same name, the registry holds for every
\* relevant measurement one pseudo-measurement, with as many constraints as
\* the measurement has.
C6_ReplaceSemantics ==
    (last.op = "make_measurement" /\ last.exc = "none") =>
        \A m \in RelevantMeasurements(fit[1]) :
            /\ PseudoName(fit[1], m) \in DOMAIN pseudo
            /\ Len(pseudo[PseudoName(fit[1], m)]) = Len(GetMeasurement(m).constraints)

\* a call that returned and made anew every pseudo-measurement of two
\* relevant measurements, which the registry held before
C6_Witness ==
    /\ last.op = "make_measurement"
    /\ last.exc = "none"
    /\ Cardinality(RelevantMeasurements(fit[1])) = 2
    /\ last.replaced = {PseudoName(fit[1], m) : m \in RelevantMeasurements(fit[1])}

---------------------------------------------------------------------------
\* C7

\* C7: get_measurements returns the names of the registered measurements
\* whose observables intersect the fit's, without those of
\* exclude_measurements when it is given, or only those of
\* include_measurements when that is given, and no name twice.
C7_RelevantMeasurements ==
    last.op = "get_measurements" =>
        /\ Range(last.result) = RelevantMeasurements(fit[1])
        /\ Len(last.result) = Cardinality(Range(last.result))

\* a list that an include filter made shorter
C7_Witness ==
    /\ last.op = "get_measurements"
    /\ fit[1].include_measurements # None
    /\ last.result = <<"B1">>
    /\ Range(AllMeasurements(fit[1])) = {"B1", "1"}

---------------------------------------------------------------------------
\* C8

\* C8: where a relevant measurement has a constraint over one observable
\* whose theory variance is zero, make_measurement raises nothing and the
\* pseudo-measurement holds the constraint combined with a point mass at the
\* constraint's central value. (Fits of one observable and calls ended by the
\* ValueError of C4 are left aside.)
C8_PointMass ==
    (last.op = "make_measurement" /\ last.cov_sm.ndim = 2 /\ last.exc # "ValueError") =>
        \A m \in RelevantMeasurements(fit[1]) :
            \A i \in DOMAIN GetMeasurement(m).constraints :
                LET c == GetMeasurement(m).constraints[i]
                    pos == IndexOf(fit[1].observables, c.parameters[1]) + 1
                    name == PseudoName(fit[1], m)
                IN (Len(c.parameters) = 1 /\ last.cov_sm.m[pos][pos] = 0) =>
                       /\ last.exc = "none"
                       /\ name \in DOMAIN pseudo
                       /\ i \in DOMAIN pseudo[name]
                       /\ pseudo[name][i].constraint.theory =
                              [kind |-> "DeltaDistribution",
                               central_value |-> c.central_value]

---------------------------------------------------------------------------
\* C9

UnknownParameter(a) ==
    \E p \in Range(a.fit_parameters) \cup Range(a.nuisance_parameters) : p \notin ParameterNames

UnknownObservable(a) == \E o \in Range(a.observables) : o \notin ObservableNames

ProbeFails(a) == a.fit_wc_names # <<>> /\ ~WcCallWorks(a.fit_wc_function, a.fit_wc_names)

\* what the first violated check raises, (a) to (f) in the order of the claim
FirstViolation(a) ==
    CASE UnknownParameter(a) -> Raise("AssertionError", "Parameter not found in Constraints")
      [] ~UnknownParameter(a) /\ UnknownObservable(a) -> Raise("ValueError", "Observable not found")
      [] ~UnknownParameter(a) /\ ~UnknownObservable(a) /\ Unconstrained(a)
            -> Raise("AssertionError", "No measurement found for the observables")
      [] ~UnknownParameter(a) /\ ~UnknownObservable(a) /\ ~Unconstrained(a) /\ BothFilters(a)
            -> Raise("ValueError", "exclude_measurements and include_measurements")
      [] ~UnknownParameter(a) /\ ~UnknownObservable(a) /\ ~Unconstrained(a) /\ ~BothFilters(a)
            /\ ListedTwice(a)
            -> Raise("AssertionError", "Parameters appearing as fit and nuisance")
      [] ~UnknownParameter(a) /\ ~UnknownObservable(a) /\ ~Unconstrained(a) /\ ~BothFilters(a)
            /\ ~ListedTwice(a) /\ ProbeFails(a)
            -> Raise("ValueError", "Error in calling the Wilson coefficient function")
      [] OTHER -> Ok

\* C9: a constructor call raises the failure of the first violated check in
\* the order (a) parameters exist, (b) observables resolve, (c) observables
\* are constrained, (d) not both filters, (e) fit and nuisance parameters
\* disjoint, (f) the coupling function takes the probe; and with no coupling
\* names the probe is not made, so that a function that would not take it
\* fails nothing.
C9_FirstViolatedCheck ==
    last.op = "__init__" =>
        /\ last.result = FirstViolation(last.args)
        /\ (last.args.fit_wc_names = <<>> /\ last.args.fit_wc_function = None)
              => last.result.msg # "Error in calling the Wilson coefficient function"

\* a call that violates checks (d), (e) and (f) and raises the failure of (d)
C9_Witness ==
    /\ last.op = "__init__"
    /\ BothFilters(last.args) /\ ListedTwice(last.args) /\ ProbeFails(last.args)
    /\ last.result = Raise("ValueError", "exclude_measurements and include_measurements")

---------------------------------------------------------------------------
\* C10

\* the extent of the support of a constraint along the axis of its a-th
\* observable
ExtentAlong(c, a) == c.support[2][a] - c.support[1][a]

\* C10: in a make_measurement call that returned, the theory covariance of
\* every constraint over more than one observable is the submatrix of the
\* theory covariance for its observables, with the diagonal entry of every
\* observable of zero variance replaced by (r/100000)^2, r the extent of the
\* constraint's support along that observable's axis, and every other entry
\* unchanged.
C10_ZeroVarianceRepair ==
    (last.op = "make_measurement" /\ last.exc = "none") =>
        \A m \in RelevantMeasurements(fit[1]) :
            \A i \in DOMAIN GetMeasurement(m).constraints :
                LET c == GetMeasurement(m).constraints[i]
                    pos(a) == IndexOf(fit[1].observables, c.parameters[a]) + 1
                    sub(a, b) == last.cov_sm.m[pos(a)][pos(b)]
                    th == pseudo[PseudoName(fit[1], m)][i].constraint.theory
                IN Len(c.parameters) > 1 =>
                       \A a, b \in DOMAIN c.parameters :
                           th.covariance[a][b] =
                               IF a = b /\ sub(a, a) = 0
                               THEN ExtentAlong(c, a) * ExtentAlong(c, a)
                               ELSE sub(a, b)

---------------------------------------------------------------------------
\* C11

\* the value the claim gives parameter p for vector x of fit f: the entry of
\* x for a fit parameter and, in a BayesianFit, for a nuisance parameter;
\* the central value of the registry otherwise
ClaimedParameter(f, x, p) ==
    IF p \in Range(f.fit_parameters)
        THEN x[IndexOf(f.fit_parameters, p) + 1]
    ELSE IF f.cls = "BayesianFit" /\ p \in Range(f.nuisance_parameters)
        THEN x[Len(f.fit_parameters) + IndexOf(f.nuisance_parameters, p) + 1]
    ELSE ParametersCentral[p]

\* C11: get_par_dict(x) on a valid vector returns, for every parameter of
\* the registry, its central value, except that fit parameters and, in a
\* BayesianFit, nuisance parameters take their entries of x (in a FastFit
\* nuisance parameters keep their central values); and every call leaves
\* the object as it was, its stored central values being those of the
\* registry still, also after earlier calls with other vectors.
C11_ParDict ==
    last.op = "get_par_dict" =>
        /\ Len(last.x) >= VectorLength(fit[1]) =>
              last.result = Returned([p \in ParameterNames |->
                                         ClaimedParameter(fit[1], last.x, p)])
        /\ fit[1] = last.before
        /\ fit[1].parameters_central = ParametersCentral

\* a call on a FastFit with a nuisance parameter: the fit parameter is
\* taken from x, away from its central value, the nuisance parameter is not
C11_Witness ==
    /\ last.op = "get_par_dict"
    /\ fit[1].cls = "FastFit"
    /\ fit[1].fit_parameters = <<"p1">>
    /\ fit[1].nuisance_parameters = <<"p2">>
    /\ last.x = <<1, 0>>
    /\ last.result = Returned([p \in ParameterNames |-> IF p = "p1" THEN 1 ELSE 2])
    /\ fit[1] = last.before

---------------------------------------------------------------------------
\* C12

\* the registry names log_likelihood of fit g looks up
LookedUpBy(g) ==
    {PseudoName(g, m) : m \in RelevantMeasurements(g)}

\* C12: of two FastFits of different names, make_measurement on one never
\* constructs a pseudo-measurement under a name log_likelihood of the other
\* looks up; so that log_likelihood of a fit on which make_measurement
\* returned finds, under each name it looks up, the pseudo-measurement of
\* its own measurement, with the observable groups of that measurement.
C12_NoCollision ==
    /\ last.op = "make_measurement" =>
          last.written \cap LookedUpBy(fit[3 - last.of]) = {}
    /\ (last.op = "log_likelihood" /\ made[last.of] = "returned") =>
          /\ last.result.exc = "none"
          /\ \A k \in DOMAIN last.ms :
                Groups(pseudo[last.result.lookups[k]])
                    = Groups(GetMeasurement(last.ms[k]).constraints)

====
